---- MODULE Spec2Model ----
(***************************************************************************)
(* Accounting document updater: the orchestrator of app.py/controller.py   *)
(* driving the three transaction drivers va03 (credit-note lookup), fb03   *)
(* (document annotation) and qm02 (notification closure).                  *)
(*                                                                         *)
(* Spec     the run of app.main over a worksheet of NumRecords records.    *)
(* SpecDrv  the three drivers' start/close/exclusive-operation lifecycle,  *)
(*          called in any order on a small pool of session handles.        *)
(* SpecFb03 fb03.append_case_id on one document, by its Text field.        *)
(* SpecVa03 va03.get_creditnote_number on one order, by its document flow. *)
(* SpecQm02 qm02.complete_notification on one notification, by its tasks.  *)
(* SpecPopup the drivers' _close_popup_dialog on a stack of dialogs.       *)
(* SpecRepair fb03._remove_duplicates on a text and a case id.             *)
(***************************************************************************)
EXTENDS Integers, Sequences, FiniteSets, TLC

VARIABLES
    pc,         \* position of app.main / of the stage function it is running
    exitCode,   \* return value of app.main; -1 while it runs
    data,       \* the DataFrame: one record per worksheet row
    mainSess,   \* app.main's variable sess
    stageSess,  \* the running stage function's parameter sess
    sessions,   \* remote side: status of every session handle opened so far
    drv,        \* module variable _sess of each driver (NA = None)
    idx,        \* position of the running stage's for loop
    n_attempts, \* controller's n_attempts of the record being handled
    hist,       \* results of the driver calls made so far for that record
    done,       \* <<stage, row>> pairs the stage's loop has finished with
    last,       \* what the last step did at the driver interface
    gui,        \* the remote screen a driver works on (driver specifications)
    kept        \* the worksheet main holds: the one the last finished stage returned

vars == <<pc, exitCode, data, mainSess, stageSess, sessions, drv, idx,
          n_attempts, hist, done, last, gui, kept>>

-----------------------------------------------------------------------------
(* Bounds and program constants *)

\* rows of the worksheet
NumRecords == 2

\* session handles the drivers are started on in SpecDrv
NumHandles == 2

\* calls of the lookup for one order after which CreditNoteNotFoundWarning
\* is no longer drawn (the loop of the lookup stage repeats on it unboundedly)
MaxCalls == 4

MAX_RECOVERY_ATTEMPTS == 3

\* ORDER_NUMBERING_PREFIX = "501", compared with the leading decimal digits
ORDER_NUMBERING_PREFIX == 501

\* pd.NA / None: a missing number, a driver without session
NA == 0

DocNums == {5011, 5012, 7001}

NotifNums == {3001}

CreditNotes == {9001}

Drivers == {"va03", "fb03", "qm02"}

Stages == {"lookup", "annotate", "close"}

-----------------------------------------------------------------------------
(* Text: a string is a sequence of tokens, SP being one blank *)

SP == " "

RECURSIVE LStrip(_)
LStrip(s) == IF s # <<>> /\ Head(s) = SP THEN LStrip(Tail(s)) ELSE s

RECURSIVE RStrip(_)
RStrip(s) ==
    IF s # <<>> /\ s[Len(s)] = SP THEN RStrip(SubSeq(s, 1, Len(s) - 1)) ELSE s

Strip(s) == LStrip(RStrip(s))

Join(a, b) == a \o <<SP>> \o b

MsgSkipped == "Document skipped."

MsgUpdated == "Document updated."

MsgCompleted == "Notification completed."

ExcText(d, outcome) == <<d \o ":" \o outcome>>

-----------------------------------------------------------------------------
(* Document numbers *)

\* the first three decimal digits of n (n itself when it has fewer)
RECURSIVE LeadingDigits(_)
LeadingDigits(n) == IF n < 1000 THEN n ELSE LeadingDigits(n \div 10)

StartsWithPrefix(n) == LeadingDigits(n) = ORDER_NUMBERING_PREFIX

IsOrderOf(doc) ==
    IF doc = NA THEN "NA" ELSE IF StartsWithPrefix(doc) THEN "T" ELSE "F"

-----------------------------------------------------------------------------
(* The remote side and the three drivers (va03.py, fb03.py, qm02.py).      *)
(* Each operator returns the set of results the call can have: the         *)
(* exception class or "ok", the sessions and the drivers' _sess afterwards *)
(* and whether a call was sent to the remote session.                      *)

TxnOf(d) ==
    CASE d = "va03" -> "VA03"
      [] d = "fb03" -> "FB03"
      [] d = "qm02" -> "QM02"

NewSession == [st |-> "live", txn |-> "none"]

IsLive(ss, h) == h \in DOMAIN ss /\ ss[h].st = "live"

\* the session behind handle h is gone: every later call on h fails
Kill(ss, h) ==
    [i \in DOMAIN ss |-> IF i = h THEN [st |-> "dead", txn |-> "none"] ELSE ss[i]]

SetTxn(ss, h, t) ==
    [i \in DOMAIN ss |-> IF i = h THEN [ss[i] EXCEPT !.txn = t] ELSE ss[i]]

Disconnect(ss, h) ==
    [i \in DOMAIN ss |->
        IF i = h /\ ss[i].st = "live" THEN [st |-> "closed", txn |-> "none"] ELSE ss[i]]

ConnectResults(ss) ==
    { [out |-> "ok", ss |-> Append(ss, NewSession), h |-> Len(ss) + 1],
      [out |-> "fail", ss |-> ss, h |-> NA] }

\* CheckPrerequisities with a fault: the check is missing
NoPrerequisitesCheck(d, dv) == TRUE

CheckPrerequisities(d, dv) == dv[d] # NA

StartResults(d, h, ss, dv) ==
    LET bound == [dv EXCEPT ![d] = h] IN
    IF IsLive(ss, h)
    THEN { [out |-> "ok", ss |-> SetTxn(ss, h, TxnOf(d)), dv |-> bound, remote |-> TRUE],
           [out |-> "com_error", ss |-> Kill(ss, h), dv |-> bound, remote |-> TRUE] }
    ELSE { [out |-> "com_error", ss |-> ss, dv |-> bound, remote |-> TRUE] }

\* CloseResults with a fault: _sess is not reset to None
CloseResultsKeepsSess(d, ss, dv) ==
    IF dv[d] = NA
    THEN { [out |-> "noop", ss |-> ss, dv |-> dv, remote |-> FALSE] }
    ELSE IF IsLive(ss, dv[d])
    THEN { [out |-> "ok", ss |-> SetTxn(ss, dv[d], "none"), dv |-> dv, remote |-> TRUE] }
    ELSE { [out |-> "com_error", ss |-> ss, dv |-> dv, remote |-> TRUE] }

CloseResults(d, ss, dv) ==
    IF dv[d] = NA
    THEN { [out |-> "noop", ss |-> ss, dv |-> dv, remote |-> FALSE] }
    ELSE IF IsLive(ss, dv[d])
    THEN { [out |-> "ok", ss |-> SetTxn(ss, dv[d], "none"),
            dv |-> [dv EXCEPT ![d] = NA], remote |-> TRUE],
           [out |-> "fatal", ss |-> ss, dv |-> dv, remote |-> TRUE],
           [out |-> "com_error", ss |-> Kill(ss, dv[d]), dv |-> dv, remote |-> TRUE] }
    ELSE { [out |-> "com_error", ss |-> ss, dv |-> dv, remote |-> TRUE] }

\* what an operation raises (or "ok") when no remote call of it faults
LiveOutcomes(d) ==
    CASE d = "va03" -> {"ok", "error", "warning", "notfound", "fatal"}
      [] d = "fb03" -> {"ok", "contained", "error", "fatal"}
      [] d = "qm02" -> {"ok", "error", "warning", "fatal"}

\* the probe _sess.IsActive of the except branch: AttributeError on a session
\* that is gone
ProbeRaises(ss, h) == ~IsLive(ss, h)

\* AfterFault with a fault: every com_error is reported as a lost connection
AfterFaultNoProbe(ss, h) == "connlost"

\* except pywintypes.com_error: SapConnectionLostError when the probe raises,
\* else the com_error itself is raised again
AfterFault(ss, h) == IF ProbeRaises(ss, h) THEN "connlost" ELSE "com_error"

\* a remote call of the operation raises com_error, on a session that is gone
\* or goes with the fault, or on one that stays alive
FaultResults(ss, h) ==
    { [out |-> AfterFault(s2, h), ss |-> s2, remote |-> TRUE, fault |-> TRUE] :
        s2 \in IF IsLive(ss, h) THEN {ss, Kill(ss, h)} ELSE {ss} }

OpResults(d, ss, dv) ==
    IF ~CheckPrerequisities(d, dv)
    THEN { [out |-> "uninit", ss |-> ss, remote |-> FALSE, fault |-> FALSE] }
    ELSE IF ~IsLive(ss, dv[d])
    THEN FaultResults(ss, dv[d])
    ELSE { [out |-> o, ss |-> ss, remote |-> TRUE, fault |-> FALSE] :
              o \in LiveOutcomes(d) }
         \cup FaultResults(ss, dv[d])

Business == {"error", "warning", "notfound", "contained"}

-----------------------------------------------------------------------------
(* The worksheet and the DataFrame *)

Worksheets ==
    [1..NumRecords ->
        [doc : DocNums \cup {NA}, notif : NotifNums \cup {NA},
         msg : {<<>>}, cn : {NA}, isOrder : {"unset"}]]

RECURSIVE SortedSeq(_)
SortedSeq(S) ==
    IF S = {} THEN <<>>
    ELSE LET m == CHOOSE x \in S : \A y \in S : x <= y
         IN <<m>> \o SortedSeq(S \ {m})

\* rows of result["Document_Number"][result["Is_Order"]], in worksheet order
OrderRows(dt) == SortedSeq({i \in DOMAIN dt : dt[i].isOrder = "T"})

AssignIsOrder(dt) == [i \in DOMAIN dt |-> [dt[i] EXCEPT !.isOrder = IsOrderOf(dt[i].doc)]]

\* result.loc[mask, "Message"] = m with mask = (Document_Number == order)
SetMsgMask(dt, order, m) ==
    [i \in DOMAIN dt |-> IF dt[i].doc = order THEN [dt[i] EXCEPT !.msg = m] ELSE dt[i]]

\* result.loc[mask, "Credit_Note"] = c
SetCnMask(dt, order, c) ==
    [i \in DOMAIN dt |-> IF dt[i].doc = order THEN [dt[i] EXCEPT !.cn = c] ELSE dt[i]]

SetMsg(dt, i, m) == [dt EXCEPT ![i].msg = m]

\* DocToUse with a fault: the credit note of an order is not looked at
DocToUseDocumentNumber(row) == row.doc

\* the document FB03 is asked to update for a row; NA when the row is skipped
DocToUse(row) ==
    IF row.isOrder = "F" THEN row.doc
    ELSE IF row.cn # NA THEN row.cn
    ELSE NA

SkippedMsg(m) == Strip(m \o <<SP, MsgSkipped>>)

-----------------------------------------------------------------------------
(* The retry loop shared in shape by the three stage functions *)

\* LoopContinues with a fault: the bound compared with <= instead of <
LoopContinuesOffByOne(n) == n <= MAX_RECOVERY_ATTEMPTS

LoopContinues(n) == n < MAX_RECOVERY_ATTEMPTS

RaisesAfterLoop(n) == n # 0

\* AfterSuccess with a fault: the else branch leaves the counter as it is
AfterSuccessKeepsCount(n) == n

\* the else branch of the try statement: n_attempts = 0
AfterSuccess(n) == 0

StageDriver(stage) ==
    CASE stage = "lookup" -> "va03"
      [] stage = "annotate" -> "fb03"
      [] stage = "close" -> "qm02"

\* the driver the except SapConnectionLostError branch of the stage restarts
RecoveryDriver(stage) ==
    CASE stage = "lookup" -> "va03"
      [] stage = "annotate" -> "fb03"
      [] stage = "close" -> "fb03"

\* AfterStage with a fault: notification closure called before the annotation
AfterStageSwapped(stage) ==
    CASE stage = "lookup" -> "close"
      [] stage = "close" -> "annotate"
      [] stage = "annotate" -> "report"

\* what app.main runs after a stage function returns
AfterStage(stage) ==
    CASE stage = "lookup" -> "annotate"
      [] stage = "annotate" -> "close"
      [] stage = "close" -> "report"

\* no screen is looked at: the drivers' results are drawn by class
NoGui == [screen |-> "none"]

LoopPc(stage) == stage \o "_loop"

EndPc(stage) == stage \o "_end"

NoEvent ==
    [kind |-> "none", stage |-> "none", drv |-> "none", rec |-> 0, arg |-> 0,
     handle |-> 0, out |-> "none", remote |-> FALSE, fault |-> FALSE,
     restarted |-> "none", newSess |-> 0]

OpEvent(stage, row, arg, r) ==
    [NoEvent EXCEPT !.kind = "op", !.stage = stage, !.drv = StageDriver(stage),
                    !.rec = row, !.arg = arg, !.handle = drv[StageDriver(stage)],
                    !.out = r.out, !.remote = r.remote, !.fault = r.fault]

LifeEvent(kind, stage, d, h, r) ==
    [NoEvent EXCEPT !.kind = kind, !.stage = stage, !.drv = d, !.handle = h,
                    !.out = r.out, !.remote = r.remote]

\* an exception leaves the stage function: app.main's except branch of the
\* processing phase disconnects main's sess and returns 3
Abort(ss, dv, dt, hs, ev) ==
    /\ pc' = "exit"
    /\ exitCode' = 3
    /\ sessions' = Disconnect(ss, mainSess)
    /\ drv' = dv
    /\ data' = dt
    /\ hist' = hs
    /\ last' = ev
    /\ UNCHANGED <<mainSess, stageSess, idx, n_attempts, done, gui, kept>>

\* the loop is left for the next row (or for the code after the loop)
Advance(stage, row, nrows, ss, dt, ev) ==
    /\ IF idx < nrows
       THEN pc' = pc /\ idx' = idx + 1
       ELSE pc' = EndPc(stage) /\ idx' = idx
    /\ exitCode' = exitCode
    /\ sessions' = ss
    /\ data' = dt
    /\ n_attempts' = 0
    /\ hist' = <<>>
    /\ done' = done \cup {<<stage, row>>}
    /\ last' = ev
    /\ UNCHANGED <<mainSess, stageSess, drv, gui, kept>>

\* break: the check after the while loop, then the next row
Finish(stage, row, nrows, n, ss, dt, ev) ==
    IF RaisesAfterLoop(n)
    THEN Abort(ss, drv, dt, Append(hist, ev.out), ev)
    ELSE Advance(stage, row, nrows, ss, dt, ev)

\* the loop body ends without break: the while condition decides
Again(stage, n, h, ss, dv, dt, ev) ==
    IF LoopContinues(n)
    THEN /\ pc' = pc
         /\ idx' = idx
         /\ exitCode' = exitCode
         /\ n_attempts' = n
         /\ stageSess' = h
         /\ sessions' = ss
         /\ drv' = dv
         /\ data' = dt
         /\ hist' = Append(hist, ev.out)
         /\ last' = ev
         /\ UNCHANGED <<mainSess, done, gui, kept>>
    ELSE Abort(ss, dv, dt, Append(hist, ev.out), ev)

\* except SapConnectionLostError: reconnect, restart a driver, n_attempts += 1
Recover(stage, r, ev) ==
    \E c \in ConnectResults(r.ss) :
        \/ /\ c.out = "fail"
           /\ Abort(c.ss, drv, data, Append(hist, ev.out), ev)
        \/ /\ c.out = "ok"
           /\ \E s \in StartResults(RecoveryDriver(stage), c.h, c.ss, drv) :
                LET ev2 == [ev EXCEPT !.restarted = RecoveryDriver(stage),
                                      !.newSess = c.h]
                IN IF s.out = "ok"
                   THEN Again(stage, n_attempts + 1, c.h, s.ss, s.dv, data, ev2)
                   ELSE Abort(s.ss, s.dv, data, Append(hist, ev.out), ev2)

-----------------------------------------------------------------------------
(* app.main and the stage functions of controller.py *)

Init ==
    /\ pc = "init"
    /\ exitCode = -1
    /\ data \in Worksheets
    /\ mainSess = NA
    /\ stageSess = NA
    /\ sessions = <<>>
    /\ drv = [d \in Drivers |-> NA]
    /\ idx = 0
    /\ n_attempts = 0
    /\ hist = <<>>
    /\ done = {}
    /\ last = NoEvent
    /\ gui = NoGui
    /\ kept = data

Exit(code, ss) ==
    /\ pc' = "exit"
    /\ exitCode' = code
    /\ sessions' = ss
    /\ UNCHANGED <<data, mainSess, stageSess, drv, idx, n_attempts, hist, done, last,
                   gui, kept>>

\* app.main up to "Initialization END": logger, configuration, first session
Initialize ==
    /\ pc = "init"
    /\ \/ \E code \in {1, 2} : Exit(code, sessions)
       \/ /\ pc' = "fetch"
          /\ sessions' = <<NewSession>>
          /\ mainSess' = 1
          /\ UNCHANGED <<exitCode, data, stageSess, drv, idx, n_attempts, hist, done,
                         last, gui, kept>>

\* app.main: fetching and validating the user input
FetchInput ==
    /\ pc = "fetch"
    /\ \/ Exit(2, Disconnect(sessions, mainSess))
       \/ Exit(0, Disconnect(sessions, mainSess))
       \/ /\ pc' = "lookup"
          /\ UNCHANGED <<exitCode, data, mainSess, stageSess, sessions, drv, idx,
                         n_attempts, hist, done, last, gui, kept>>

\* a stage function starts its driver on its parameter sess and enters the loop
EnterLoop(stage, dt) ==
    \E s \in StartResults(StageDriver(stage), mainSess, sessions, drv) :
        LET ev == LifeEvent("start", stage, StageDriver(stage), mainSess, s)
        IN IF s.out = "ok"
           THEN /\ pc' = LoopPc(stage)
                /\ idx' = 1
                /\ n_attempts' = 0
                /\ hist' = <<>>
                /\ stageSess' = mainSess
                /\ sessions' = s.ss
                /\ drv' = s.dv
                /\ data' = dt
                /\ last' = ev
                /\ UNCHANGED <<exitCode, mainSess, done, gui, kept>>
           ELSE Abort(s.ss, s.dv, dt, <<>>, ev)

\* a stage function returns before starting its driver
SkipStage(stage, dt) ==
    /\ pc' = AfterStage(stage)
    /\ data' = dt
    /\ stageSess' = mainSess
    /\ last' = [NoEvent EXCEPT !.kind = "return", !.stage = stage]
    /\ UNCHANGED <<exitCode, mainSess, sessions, drv, idx, n_attempts, hist, done, gui>>
    /\ kept' = dt

\* the code after a stage's loop: close the driver and return
LeaveLoop(stage, raises) ==
    \E c \in CloseResults(StageDriver(stage), sessions, drv) :
        LET ev == LifeEvent("close", stage, StageDriver(stage),
                            drv[StageDriver(stage)], c)
        IN IF c.out \in {"ok", "noop"} /\ ~raises
           THEN /\ pc' = AfterStage(stage)
                /\ sessions' = c.ss
                /\ drv' = c.dv
                /\ last' = ev
                /\ UNCHANGED <<exitCode, data, mainSess, stageSess, idx, n_attempts,
                               hist, done, gui>>
                /\ kept' = data
           ELSE Abort(c.ss, c.dv, data, hist, ev)

LookupBegin ==
    /\ pc = "lookup"
    /\ IF \A i \in DOMAIN data : data[i].doc = NA
       THEN SkipStage("lookup", data)
       ELSE IF OrderRows(AssignIsOrder(data)) = <<>>
       THEN SkipStage("lookup", AssignIsOrder(data))
       ELSE EnterLoop("lookup", AssignIsOrder(data))

LookupStep ==
    /\ pc = "lookup_loop"
    /\ LET rows == OrderRows(data)
           row == rows[idx]
           order == data[row].doc
       IN \E r \in OpResults("va03", sessions, drv) :
            LET ev == OpEvent("lookup", row, order, r) IN
            \/ /\ r.out = "connlost"
               /\ Recover("lookup", r, ev)
            \/ /\ r.out \in {"error", "warning"}
               /\ Finish("lookup", row, Len(rows), n_attempts, r.ss,
                         SetMsgMask(data, order, ExcText("va03", r.out)), ev)
            \/ /\ r.out = "notfound"
               /\ Len(hist) + 1 < MaxCalls
               /\ Again("lookup", n_attempts, stageSess, r.ss, drv,
                        SetCnMask(SetMsgMask(data, order, ExcText("va03", r.out)),
                                  order, NA), ev)
            \/ /\ r.out = "ok"
               /\ \E cn \in CreditNotes :
                    Finish("lookup", row, Len(rows), AfterSuccess(n_attempts), r.ss,
                           SetCnMask(data, order, cn), ev)
            \/ /\ r.out \in {"fatal", "uninit", "com_error"}
               /\ Abort(r.ss, drv, data, Append(hist, r.out), ev)

LookupEnd ==
    /\ pc = "lookup_end"
    /\ LeaveLoop("lookup", \A i \in DOMAIN data : data[i].cn = NA)

AnnotateBegin ==
    /\ pc = "annotate"
    /\ IF \A i \in DOMAIN data : data[i].doc = NA
       THEN SkipStage("annotate", data)
       ELSE EnterLoop("annotate", data)

AnnotateStep ==
    /\ pc = "annotate_loop"
    /\ LET row == data[idx] IN
       IF row.isOrder \notin {"T", "F"}
       THEN Abort(sessions, drv, data, hist,
                  [NoEvent EXCEPT !.kind = "typeerror", !.stage = "annotate", !.rec = idx])
       ELSE IF DocToUse(row) = NA
       THEN Advance("annotate", idx, Len(data), sessions,
                    SetMsg(data, idx, SkippedMsg(row.msg)),
                    [NoEvent EXCEPT !.kind = "skip", !.stage = "annotate", !.rec = idx])
       ELSE \E r \in OpResults("fb03", sessions, drv) :
            LET ev == OpEvent("annotate", idx, DocToUse(row), r) IN
            \/ /\ r.out = "connlost"
               /\ Recover("annotate", r, ev)
            \/ /\ r.out \in {"contained", "error"}
               /\ Finish("annotate", idx, Len(data), n_attempts, r.ss,
                         SetMsg(data, idx, ExcText("fb03", r.out)), ev)
            \/ /\ r.out = "ok"
               /\ Finish("annotate", idx, Len(data), AfterSuccess(n_attempts), r.ss,
                         SetMsg(data, idx, <<MsgUpdated>>), ev)
            \/ /\ r.out \in {"fatal", "uninit", "com_error"}
               /\ Abort(r.ss, drv, data, Append(hist, r.out), ev)

AnnotateEnd ==
    /\ pc = "annotate_end"
    /\ LeaveLoop("annotate", FALSE)

CloseBegin ==
    /\ pc = "close"
    /\ IF \A i \in DOMAIN data : data[i].notif = NA
       THEN SkipStage("close", data)
       ELSE EnterLoop("close", data)

CloseStep ==
    /\ pc = "close_loop"
    /\ LET row == data[idx] IN
       IF row.notif = NA
       THEN Abort(sessions, drv, data, hist,
                  [NoEvent EXCEPT !.kind = "typeerror", !.stage = "close", !.rec = idx])
       ELSE \E r \in OpResults("qm02", sessions, drv) :
            LET ev == OpEvent("close", idx, row.notif, r) IN
            \/ /\ r.out = "connlost"
               /\ Recover("close", r, ev)
            \/ /\ r.out \in {"error", "warning", "fatal", "uninit", "com_error"}
               /\ Finish("close", idx, Len(data), n_attempts, r.ss,
                         SetMsg(data, idx, Join(row.msg, ExcText("qm02", r.out))), ev)
            \/ /\ r.out = "ok"
               /\ Finish("close", idx, Len(data), AfterSuccess(n_attempts), r.ss,
                         SetMsg(data, idx, Join(row.msg, <<MsgCompleted>>)), ev)

CloseEnd ==
    /\ pc = "close_end"
    /\ LeaveLoop("close", FALSE)

\* app.main: the reporting phase and its finally branch
Report ==
    /\ pc = "report"
    /\ \E code \in {0, 4} :
         /\ pc' = "exit"
         /\ exitCode' = code
         /\ sessions' = Disconnect(sessions, mainSess)
         /\ last' = [NoEvent EXCEPT !.kind = "report",
                                     !.out = IF code = 0 THEN "ok" ELSE "fatal"]
         /\ UNCHANGED <<data, mainSess, stageSess, drv, idx, n_attempts, hist, done,
                        gui, kept>>

Next ==
    \/ Initialize
    \/ FetchInput
    \/ LookupBegin
    \/ LookupStep
    \/ LookupEnd
    \/ AnnotateBegin
    \/ AnnotateStep
    \/ AnnotateEnd
    \/ CloseBegin
    \/ CloseStep
    \/ CloseEnd
    \/ Report

Spec == Init /\ [][Next]_vars

-----------------------------------------------------------------------------
(* The drivers on their own: start, close and the exclusive operation of   *)
(* each driver called in any order, on any of NumHandles session handles   *)

InitDrv ==
    /\ pc = "drv"
    /\ exitCode = -1
    /\ data = <<>>
    /\ kept = <<>>
    /\ mainSess = NA
    /\ stageSess = NA
    /\ sessions = [h \in 1..NumHandles |-> NewSession]
    /\ drv = [d \in Drivers |-> NA]
    /\ idx = 0
    /\ n_attempts = 0
    /\ hist = <<>>
    /\ done = {}
    /\ last = NoEvent
    /\ gui = NoGui

DrvFrame ==
    UNCHANGED <<pc, exitCode, data, mainSess, stageSess, idx, n_attempts, hist, done,
                gui, kept>>

\* start(sess) of va03.py, fb03.py, qm02.py
DrvStart ==
    /\ pc = "drv"
    /\ \E d \in Drivers, h \in DOMAIN sessions :
         \E s \in StartResults(d, h, sessions, drv) :
            /\ sessions' = s.ss
            /\ drv' = s.dv
            /\ last' = LifeEvent("start", "none", d, h, s)
    /\ DrvFrame

\* close() of va03.py, fb03.py, qm02.py
DrvClose ==
    /\ pc = "drv"
    /\ \E d \in Drivers :
         \E c \in CloseResults(d, sessions, drv) :
            /\ sessions' = c.ss
            /\ drv' = c.dv
            /\ last' = LifeEvent("close", "none", d, drv[d], c)
    /\ DrvFrame

\* get_creditnote_number, append_case_id, complete_notification
DrvOp ==
    /\ pc = "drv"
    /\ \E d \in Drivers :
         \E r \in OpResults(d, sessions, drv) :
            /\ sessions' = r.ss
            /\ drv' = drv
            /\ last' = [LifeEvent("op", "none", d, drv[d], r) EXCEPT !.fault = r.fault]
    /\ DrvFrame

NextDrv ==
    \/ DrvStart
    \/ DrvClose
    \/ DrvOp

SpecDrv == InitDrv /\ [][NextDrv]_vars

-----------------------------------------------------------------------------
(* fb03.append_case_id on one document: its Text field is a sequence of     *)
(* characters, the case id a sequence of decimal digits (str(case_id))      *)

MAX_TEXT_FIELD_CHARS == 50

\* characters drawn after the filler of a document text
MaxTail == 3

\* digits of a case id
MaxIdLen == 2

TextChars == {"4", "7", SP}

Digits == {"4", "7"}

SeqsUpTo(S, n) == UNION { [1..k -> S] : k \in 0..n }

Filler(n) == [i \in 1..n |-> "R"]

\* short texts, and texts whose length is next to the limit of the field
DocTexts ==
    { Filler(n) \o t : n \in {0, MAX_TEXT_FIELD_CHARS - 6},
                       t \in SeqsUpTo(TextChars, MaxTail) }

CaseIds == SeqsUpTo(Digits, MaxIdLen) \ {<<>>}

\* sub occurs in text at position i
MatchAt(text, sub, i) ==
    i + Len(sub) - 1 <= Len(text) /\ \A k \in 1..Len(sub) : text[i + k - 1] = sub[k]

\* sub in text
Contains(text, sub) == \E i \in 1..(Len(text) + 1) : MatchAt(text, sub, i)

\* len(re.findall(case_id, text[i-1:])): occurrences found from the left,
\* the search going on behind each one
RECURSIVE CountMatches(_, _, _)
CountMatches(text, sub, i) ==
    IF i + Len(sub) - 1 > Len(text) THEN 0
    ELSE IF MatchAt(text, sub, i)
    THEN 1 + CountMatches(text, sub, i + Len(sub))
    ELSE CountMatches(text, sub, i + 1)

\* re.sub(case_id, "", text[i-1:])
RECURSIVE RemoveAll(_, _, _)
RemoveAll(text, sub, i) ==
    IF i > Len(text) THEN <<>>
    ELSE IF MatchAt(text, sub, i)
    THEN RemoveAll(text, sub, i + Len(sub))
    ELSE <<text[i]>> \o RemoveAll(text, sub, i + 1)

RemoveDuplicates(text, case_id) ==
    IF CountMatches(text, case_id, 1) >= 2
    THEN Strip(RemoveAll(text, case_id, 1))
    ELSE text

Compose(text, case_id) == Strip(text) \o <<SP, "D", SP>> \o case_id

\* FitsField with a fault: the limit compared with < instead of <=
FitsFieldStrict(text) == Len(text) < MAX_TEXT_FIELD_CHARS

FitsField(text) == Len(text) <= MAX_TEXT_FIELD_CHARS

\* AlreadyContained with a fault: only a text ending with the case id counts
AlreadyContainedAtEnd(text, case_id) ==
    Len(case_id) <= Len(text)
    /\ SubSeq(text, Len(text) - Len(case_id) + 1, Len(text)) = case_id

AlreadyContained(text, case_id) == Contains(text, case_id)

\* AppendCaseId with a fault: the old text is not stripped
AppendCaseIdUnstripped(text, case_id) ==
    IF AlreadyContained(text, case_id)
    THEN [out |-> "contained", text |-> <<>>, reset |-> TRUE]
    ELSE LET compiled_text == text \o <<SP, "D", SP>> \o case_id
         IN IF ~FitsField(compiled_text)
            THEN [out |-> "toolong", text |-> <<>>, reset |-> FALSE]
            ELSE [out |-> "ok", text |-> compiled_text, reset |-> FALSE]

\* AppendCaseId with a fault: the text is repaired before it is searched for
\* the case id
AppendCaseIdRepairsFirst(text, case_id) ==
    LET repaired == RemoveDuplicates(text, case_id)
        compiled_text == Compose(repaired, case_id)
    IN IF AlreadyContained(repaired, case_id)
       THEN [out |-> "contained", text |-> <<>>, reset |-> TRUE]
       ELSE IF ~FitsField(compiled_text)
       THEN [out |-> "toolong", text |-> <<>>, reset |-> FALSE]
       ELSE [out |-> "ok", text |-> compiled_text, reset |-> FALSE]

\* _append_case_id: the text to write, or the exception raised
AppendCaseId(text, case_id) ==
    IF AlreadyContained(text, case_id)
    THEN [out |-> "contained", text |-> <<>>, reset |-> TRUE]
    ELSE LET compiled_text == Compose(RemoveDuplicates(text, case_id), case_id)
         IN IF ~FitsField(compiled_text)
            THEN [out |-> "toolong", text |-> <<>>, reset |-> FALSE]
            ELSE [out |-> "ok", text |-> compiled_text, reset |-> FALSE]

\* what the remote side does first that is not the plain course of the call
Fb03Deviations ==
    {"none", "fault_search", "not_exist", "alert", "fault_reset", "popup",
     "popup_stuck", "not_editable", "fault_save", "save_alert", "fault_clear"}

\* the status bar text saying that the net due date is in the past
NetDueNotice(date) == <<"Net due date on ", date, " is in the past">>

\* the text _save_changes looks for in the status bar
NetDuePattern == NetDueNotice("*")

\* status bar texts a save may leave
SaveTexts ==
    {NetDueNotice("01.02.2023"), NetDueNotice("*"), <<"Posting period is not open">>}

\* the status bar after a save that went through without a message
PlainStatus == [type |-> "S", text |-> <<"Document was changed">>]

\* nothing was saved, the status bar was not looked at
NoStatus == [type |-> "none", text |-> <<>>]

IsAlertMessage(status) == status.type = "E" \/ status.type = "W"

\* _save_changes after CtrlS was pressed, on the status bar it finds
SaveChanges(status) ==
    IF IsAlertMessage(status)
    THEN IF Contains(status.text, NetDuePattern) THEN "dismissed" ELSE "error"
    ELSE "saved"

\* e.dies: whether a fault takes the session with it; e.save: the status bar
\* after CtrlS
Fb03Envs ==
    { e \in [dev : Fb03Deviations, dies : BOOLEAN,
              save : [type : {"W", "E"}, text : SaveTexts] \cup {PlainStatus}] :
        /\ e.dies => e.dev \in {"fault_search", "fault_reset", "fault_save", "fault_clear"}
        /\ e.dev = "save_alert" <=> e.save # PlainStatus }

\* append_case_id on a document with the given text, a being the result of
\* _append_case_id(old_text, case_id) and e what the remote side does.
\* text is the document's text afterwards, wrote the values assigned to the
\* Text field, read whether the text was read, save the status bar the save
\* left (NoStatus when CtrlS was not pressed), reset whether the call
\* navigated back to the initial screen.
AppendCaseIdCall(text, a, e, ss, dv) ==
    LET h == dv["fb03"]
        ret(o, why, txt, wr, rd, rs) ==
            [out |-> o, why |-> why, text |-> txt, wrote |-> wr, read |-> rd,
             reset |-> rs, ss |-> ss, remote |-> TRUE, fault |-> FALSE,
             save |-> NoStatus]
        flt(txt, wr, rd, rs) ==
            LET s2 == IF e.dies THEN Kill(ss, h) ELSE ss
            IN [out |-> AfterFault(s2, h), why |-> "com_error", text |-> txt,
                wrote |-> wr, read |-> rd, reset |-> rs, ss |-> s2,
                remote |-> TRUE, fault |-> TRUE, save |-> NoStatus]
    IN
    IF ~CheckPrerequisities("fb03", dv)
    THEN [ret("uninit", "uninit", text, <<>>, FALSE, FALSE) EXCEPT !.remote = FALSE]
    ELSE IF ~IsLive(ss, h) \/ e.dev = "fault_search"
    THEN flt(text, <<>>, FALSE, FALSE)
    ELSE IF e.dev = "not_exist"
    THEN ret("error", "not_exist", text, <<>>, FALSE, FALSE)
    ELSE IF e.dev = "alert"
    THEN ret("error", "alert", text, <<>>, FALSE, FALSE)
    ELSE IF a.out = "contained"
    THEN IF e.dev = "fault_reset"
         THEN flt(text, <<>>, TRUE, FALSE)
         ELSE ret("contained", "contained", text, <<>>, TRUE, TRUE)
    ELSE IF a.out = "toolong"
    THEN ret("error", "toolong", text, <<>>, TRUE, FALSE)
    ELSE IF e.dev = "popup"
    THEN ret("error", "popup", text, <<>>, TRUE, FALSE)
    ELSE IF e.dev = "popup_stuck"
    THEN ret("fatal", "popup", text, <<>>, TRUE, FALSE)
    ELSE IF e.dev = "not_editable"
    THEN ret("error", "not_editable", text, <<>>, TRUE, TRUE)
    ELSE IF e.dev = "fault_save"
    THEN flt(text, <<a.text>>, TRUE, FALSE)
    ELSE IF SaveChanges(e.save) = "error"
    THEN [ret("error", "save", text, <<a.text>>, TRUE, FALSE) EXCEPT !.save = e.save]
    ELSE IF e.dev = "fault_clear"
    THEN [flt(a.text, <<a.text>>, TRUE, FALSE) EXCEPT !.save = e.save]
    ELSE [ret("ok", "ok", a.text, <<a.text>>, TRUE, FALSE) EXCEPT !.save = e.save]

\* the screen FB03 is on when append_case_id is left: the initial screen
\* until the document is opened (read), again after _to_initial_screen
\* (reset) and after the save went through (saved), which the call relies on
\* when it clears the search fields next; the line item's screen otherwise.
\* After a fault the screen is not known.
Fb03ScreenAfter(r) ==
    IF r.fault THEN "unknown"
    ELSE IF ~r.read \/ r.reset \/ r.out = "ok" THEN "initial"
    ELSE "item"

Fb03Frame ==
    UNCHANGED <<pc, exitCode, data, mainSess, stageSess, drv, idx, n_attempts,
                hist, done, kept>>

\* FB03 started on a live session, one document with a text, one case id
InitFb03 ==
    /\ pc = "fb03"
    /\ exitCode = -1
    /\ data = <<>>
    /\ kept = <<>>
    /\ mainSess = 1
    /\ stageSess = 1
    /\ sessions = <<[st |-> "live", txn |-> "FB03"]>>
    /\ drv = [d \in Drivers |-> IF d = "fb03" THEN 1 ELSE NA]
    /\ idx = 0
    /\ n_attempts = 0
    /\ hist = <<>>
    /\ done = {}
    /\ last = NoEvent
    /\ \E t \in DocTexts, c \in CaseIds :
         gui = [screen |-> "fb03", text |-> t, case_id |-> c, before |-> t,
                out |-> "none", why |-> "none", wrote |-> <<>>, read |-> FALSE,
                reset |-> FALSE, save |-> NoStatus, at |-> "initial"]

\* fb03.append_case_id(document, fiscal_year, company_code, case_id)
Fb03AppendCaseId ==
    /\ pc = "fb03"
    /\ \E a \in {AppendCaseId(gui.text, gui.case_id)}, e \in Fb03Envs :
         LET r == AppendCaseIdCall(gui.text, a, e, sessions, drv) IN
         /\ gui' = [gui EXCEPT !.text = r.text, !.before = gui.text,
                               !.out = r.out, !.why = r.why, !.wrote = r.wrote,
                               !.read = r.read, !.reset = r.reset,
                               !.save = r.save, !.at = Fb03ScreenAfter(r)]
         /\ sessions' = r.ss
         /\ last' = [LifeEvent("op", "annotate", "fb03", drv["fb03"], r)
                        EXCEPT !.fault = r.fault]
    /\ Fb03Frame

NextFb03 == Fb03AppendCaseId

SpecFb03 == InitFb03 /\ [][NextFb03]_vars

-----------------------------------------------------------------------------
(* va03.get_creditnote_number on one order: the document flow is a tree of  *)
(* nodes 1..n, par[i] the parent of node i (0 for a top-level node), the    *)
(* nodes of one level ordered by their keys; mark[i] tells whether the text *)
(* of node i contains "Accounting document"                                 *)

\* nodes of a document flow
MaxNodes == 4

ParentFns(n) == { p \in [1..n -> 0..(n - 1)] : \A i \in 1..n : p[i] < i }

Trees ==
    UNION { [par : ParentFns(n), mark : [1..n -> BOOLEAN]] : n \in 1..MaxNodes }

\* tree.GetSubNodesCol(node), <<>> standing for None; with p = 0 the top level
SubNodes(t, p) == SortedSeq({i \in DOMAIN t.par : t.par[i] = p})

\* next(iter(tree.GetNodesCol()))
FirstNode(t) == Head(SubNodes(t, 0))

\* tree.GetNextNodeKey(node): the next node of the same level, NA standing
\* for the exception raised when there is none
NextNodeKey(t, node) ==
    LET later == {i \in DOMAIN t.par : t.par[i] = t.par[node] /\ i > node}
    IN IF later = {} THEN NA ELSE CHOOSE i \in later : \A j \in later : i <= j

\* _get_reference_number: the number read after the double click on the node
ReferenceNumber(t, node) == 9000 + node

\* GetNodeValue with a fault: the next node of the level is searched before
\* the nodes below
RECURSIVE GetNodeValueLevelFirst(_, _)
GetNodeValueLevelFirst(t, node) ==
    IF t.mark[node] THEN ReferenceNumber(t, node)
    ELSE LET sibling == NextNodeKey(t, node)
             res == IF sibling # NA THEN GetNodeValueLevelFirst(t, sibling) ELSE NA
             children == SubNodes(t, node)
         IN IF res # NA THEN res
            ELSE IF children = <<>> THEN NA
            ELSE GetNodeValueLevelFirst(t, Head(children))

\* _get_node_value("Accounting document", tree, node), NA standing for None
RECURSIVE GetNodeValue(_, _)
GetNodeValue(t, node) ==
    IF t.mark[node] THEN ReferenceNumber(t, node)
    ELSE LET children == SubNodes(t, node)
             res == IF children # <<>> THEN GetNodeValue(t, Head(children)) ELSE NA
             sibling == NextNodeKey(t, node)
         IN IF res # NA THEN res
            ELSE IF sibling = NA THEN NA
            ELSE GetNodeValue(t, sibling)

\* a popup window: none, or its message, or one _close_popup_dialog cannot close
PopupKinds == {"none", "comment", "blocked", "other", "stuck"}

\* HandlePopup with a fault: the messages of the two branches are exchanged
HandlePopupSwapped(kind) ==
    CASE kind = "stuck" -> "fatal"
      [] kind = "comment" -> "pass"
      [] kind = "blocked" -> "error"
      [] kind = "other" -> "warning"

\* _handle_popup_dialog: what it raises, "pass" when it returns
HandlePopup(kind) ==
    CASE kind = "stuck" -> "fatal"
      [] kind = "comment" -> "pass"
      [] kind = "blocked" -> "warning"
      [] kind = "other" -> "error"

\* what the remote side shows during a call: the popup after the order number
\* is entered, the status bar, the popup after the document flow is opened,
\* an error message in the status bar, and the remote call that faults
Va03EnvsAll ==
    [popup1 : PopupKinds, status : {"none", "not_in_db"}, popup2 : PopupKinds,
     err : BOOLEAN, fault : {"none", "search", "tree", "clear"}, dies : BOOLEAN]

Va03NoEnv ==
    [popup1 |-> "none", status |-> "none", popup2 |-> "none", err |-> FALSE,
     fault |-> "none", dies |-> FALSE]

Passes(kind) == kind \in {"none", "comment"}

\* nothing is drawn for what the call does not get to
Va03Envs ==
    { e \in Va03EnvsAll :
        /\ e.dies => e.fault # "none"
        /\ e.fault = "search" =>
              e = [Va03NoEnv EXCEPT !.fault = "search", !.dies = e.dies]
        /\ ~Passes(e.popup1) => e = [Va03NoEnv EXCEPT !.popup1 = e.popup1]
        /\ e.status # "none" =>
              e = [Va03NoEnv EXCEPT !.popup1 = e.popup1, !.status = e.status]
        /\ ~Passes(e.popup2) =>
              e = [Va03NoEnv EXCEPT !.popup1 = e.popup1, !.popup2 = e.popup2]
        /\ e.err => e.fault = "none" }

\* get_creditnote_number(order), num being what _get_node_value returns on
\* the document flow of the order
GetCreditnoteNumber(num, e, ss, dv) ==
    LET h == dv["va03"]
        ret(o, why, n) ==
            [out |-> o, why |-> why, num |-> n, ss |-> ss, remote |-> TRUE,
             fault |-> FALSE]
        flt ==
            LET s2 == IF e.dies THEN Kill(ss, h) ELSE ss
            IN [out |-> AfterFault(s2, h), why |-> "com_error", num |-> NA,
                ss |-> s2, remote |-> TRUE, fault |-> TRUE]
    IN
    IF ~CheckPrerequisities("va03", dv)
    THEN [ret("uninit", "uninit", NA) EXCEPT !.remote = FALSE]
    ELSE IF ~IsLive(ss, h) \/ e.fault = "search"
    THEN flt
    ELSE IF e.popup1 # "none" /\ HandlePopup(e.popup1) # "pass"
    THEN ret(HandlePopup(e.popup1), "popup", NA)
    ELSE IF e.status = "not_in_db"
    THEN ret("error", "not_in_db", NA)
    ELSE IF e.popup2 # "none" /\ HandlePopup(e.popup2) # "pass"
    THEN ret(HandlePopup(e.popup2), "popup", NA)
    ELSE IF e.err
    THEN ret("error", "status", NA)
    ELSE IF e.fault = "tree"
    THEN flt
    ELSE IF num = NA
    THEN ret("notfound", "no_node", NA)
    ELSE IF e.fault = "clear"
    THEN flt
    ELSE ret("ok", "ok", num)

Va03Frame ==
    UNCHANGED <<pc, exitCode, data, mainSess, stageSess, drv, idx, n_attempts,
                hist, done, kept>>

\* VA03 started on a live session, one order with its document flow and
\* with what the remote side shows when the order is looked up
InitVa03 ==
    /\ pc = "va03"
    /\ exitCode = -1
    /\ data = <<>>
    /\ kept = <<>>
    /\ mainSess = 1
    /\ stageSess = 1
    /\ sessions = <<[st |-> "live", txn |-> "VA03"]>>
    /\ drv = [d \in Drivers |-> IF d = "va03" THEN 1 ELSE NA]
    /\ idx = 0
    /\ n_attempts = 0
    /\ hist = <<>>
    /\ done = {}
    /\ last = NoEvent
    /\ \E t \in Trees, e \in Va03Envs :
         gui = [screen |-> "va03", tree |-> t, env |-> e,
                out |-> "none", why |-> "none", num |-> NA]

\* va03.get_creditnote_number(order)
Va03GetCreditnoteNumber ==
    /\ pc = "va03"
    /\ gui.out = "none"
    /\ \E num \in {GetNodeValue(gui.tree, FirstNode(gui.tree))} :
         LET r == GetCreditnoteNumber(num, gui.env, sessions, drv) IN
         /\ gui' = [gui EXCEPT !.out = r.out, !.why = r.why, !.num = r.num]
         /\ sessions' = r.ss
         /\ last' = [LifeEvent("op", "lookup", "va03", drv["va03"], r)
                        EXCEPT !.fault = r.fault]
    /\ Va03Frame

NextVa03 == Va03GetCreditnoteNumber

SpecVa03 == InitVa03 /\ [][NextVa03]_vars

-----------------------------------------------------------------------------
(* qm02.complete_notification on one notification: the task grid is a       *)
(* sequence of rows, a row holding a task number (0 for a row without task) *)
(* and whether its completion date is blank (open)                          *)

\* rows of the task grid (RowCount)
MaxRows == 3

\* _reopen_blocked(max_attempts = 3, wait_secs = 2)
ReopenMaxAttempts == 3

TaskNums == {1, 2}

GridRows == [num : TaskNums, open : BOOLEAN] \cup {[num |-> 0, open |-> FALSE]}

Grids == SeqsUpTo(GridRows, MaxRows)

\* visibleRowCount of the grid control
VisibleRowCounts == 1..MaxRows

\* tasks[task_num] = {...}: a number read again replaces its entry in place
PutTask(tasks, t) ==
    IF \E k \in DOMAIN tasks : tasks[k].num = t.num
    THEN [k \in DOMAIN tasks |-> IF tasks[k].num = t.num THEN t ELSE tasks[k]]
    ELSE Append(tasks, t)

\* GetCell(visible_row_idx, 0): the rows of the grid control are counted from
\* the row the scrollbar stands at
GetCell(rows, pos, visible_row_idx) == rows[pos + visible_row_idx + 1]

\* _get_available_tasks from row_idx on, vis being visibleRowCount and pos
\* the scrollbar position: the loop runs while row_idx < RowCount - 1 and
\* stops at a row without task number
RECURSIVE AvailableTasks(_, _, _, _, _)
AvailableTasks(rows, vis, pos, row_idx, tasks) ==
    IF ~(row_idx < Len(rows) - 1) THEN tasks
    ELSE LET visible_row_idx == row_idx % vis
             pos2 == IF visible_row_idx = 0 /\ row_idx > 0 THEN row_idx ELSE pos
             cell == GetCell(rows, pos2, visible_row_idx)
         IN IF cell.num = 0 THEN tasks
            ELSE AvailableTasks(rows, vis, pos2, row_idx + 1,
                    PutTask(tasks, [num |-> cell.num, open |-> cell.open,
                                    row_idx |-> row_idx]))

\* the status bar is an error after the k-th press of Enter: the lock is
\* released at press number clears, never when clears = 0
StillError(k, clears) == clears = 0 \/ k < clears

\* presses of Enter made by the loop of _reopen_blocked entered with n_attempts = n
RECURSIVE ReopenPresses(_, _)
ReopenPresses(n, clears) ==
    IF ~(n <= ReopenMaxAttempts) THEN 0
    ELSE IF StillError(n + 1, clears) THEN 1 + ReopenPresses(n + 1, clears)
    ELSE 1

\* _reopen_blocked: the presses made and whether it raises
ReopenBlocked(clears) ==
    [presses |-> ReopenPresses(0, clears),
     raises |-> StillError(ReopenPresses(0, clears), clears)]

\* SearchNotification with a fault: a notification that can only be displayed
\* is worked on like an opened one
SearchNotificationOpensDisplayOnly(e) ==
    LET ret(o, why, p, d, r) ==
            [out |-> o, why |-> why, presses |-> p, dismissed |-> d, reset |-> r]
        b == ReopenBlocked(e.clears)
    IN
    IF e.popup0 = "stuck" THEN ret("fatal", "popup", 0, FALSE, FALSE)
    ELSE IF e.status = "not_exist" THEN ret("error", "not_exist", 0, FALSE, FALSE)
    ELSE IF e.status = "blocked"
    THEN IF b.raises THEN ret("error", "blocked", b.presses, FALSE, FALSE)
         ELSE ret("opened", "reopened", b.presses, FALSE, FALSE)
    ELSE IF e.popup1 = "stuck" THEN ret("fatal", "popup", 0, FALSE, FALSE)
    ELSE IF e.popup1 = "closes" THEN ret("error", "popup", 0, FALSE, TRUE)
    ELSE ret("opened", "opened", 0, FALSE, FALSE)

\* _search_notification: what it raises ("opened" when it returns), the
\* presses of Enter made to reopen, whether the screen was dismissed with F12
\* and whether _to_initial_screen was called
SearchNotification(e) ==
    LET ret(o, why, p, d, r) ==
            [out |-> o, why |-> why, presses |-> p, dismissed |-> d, reset |-> r]
        b == ReopenBlocked(e.clears)
    IN
    IF e.popup0 = "stuck" THEN ret("fatal", "popup", 0, FALSE, FALSE)
    ELSE IF e.status = "not_exist" THEN ret("error", "not_exist", 0, FALSE, FALSE)
    ELSE IF e.status = "display_only" THEN ret("warning", "display_only", 0, TRUE, FALSE)
    ELSE IF e.status = "blocked"
    THEN IF b.raises THEN ret("error", "blocked", b.presses, FALSE, FALSE)
         ELSE ret("opened", "reopened", b.presses, FALSE, FALSE)
    ELSE IF e.popup1 = "stuck" THEN ret("fatal", "popup", 0, FALSE, FALSE)
    ELSE IF e.popup1 = "closes" THEN ret("error", "popup", 0, FALSE, TRUE)
    ELSE ret("opened", "opened", 0, FALSE, FALSE)

\* the rows _complete selects and presses the task completion control on:
\* _complete_task(task_num) selects row task_num - 1
RowsToPress(tasks) ==
    LET open == SelectSeq(tasks, LAMBDA t : t.open)
    IN [k \in DOMAIN open |-> open[k].num - 1]

\* the grid after the task completion control was pressed on the rows
\* pressed; a "Status check error" popup (check) leaves the task as it is
PressTasks(rows, pressed, check) ==
    [i \in DOMAIN rows |->
        IF ~check /\ \E k \in DOMAIN pressed : pressed[k] = i - 1
        THEN [rows[i] EXCEPT !.open = FALSE]
        ELSE rows[i]]

\* what the remote side shows during a call: the popup after the number is
\* entered and the one of the last branch of _search_notification, the status
\* bar, the press of Enter that releases a lock, "Status check error" after a
\* task and after the overall completion, and the remote call that faults
Qm02EnvsAll ==
    [popup0 : {"none", "closes", "stuck"}, popup1 : {"none", "closes", "stuck"},
     status : {"none", "not_exist", "display_only", "blocked"},
     clears : 0..(ReopenMaxAttempts + 2),
     taskCheck : BOOLEAN, finalCheck : BOOLEAN,
     fault : {"none", "search", "complete"}, dies : BOOLEAN]

Qm02NoEnv ==
    [popup0 |-> "none", popup1 |-> "none", status |-> "none", clears |-> 0,
     taskCheck |-> FALSE, finalCheck |-> FALSE, fault |-> "none", dies |-> FALSE]

\* nothing is drawn for what the call does not get to
Qm02Envs ==
    { e \in Qm02EnvsAll :
        /\ e.dies => e.fault # "none"
        /\ e.fault = "search" =>
              e = [Qm02NoEnv EXCEPT !.fault = "search", !.dies = e.dies]
        /\ e.status # "blocked" => e.clears = 0
        /\ e.status # "none" => e.popup1 = "none"
        /\ SearchNotification(e).out # "opened" =>
              e = [Qm02NoEnv EXCEPT !.popup0 = e.popup0, !.popup1 = e.popup1,
                                    !.status = e.status, !.clears = e.clears]
        /\ e.fault = "complete" => ~e.finalCheck }

\* CompleteRaises with a fault: the popup after a task's completion control
\* makes the operation fail as well
CompleteRaisesOnTaskCheck(taskCheck, finalCheck) == taskCheck \/ finalCheck

\* _complete raises NotificationCompletionError: "Status check error" after a
\* task's control (taskCheck) is declined in _complete_task, the one after
\* the overall completion control (finalCheck) is declined and raised on
CompleteRaises(taskCheck, finalCheck) == finalCheck

\* complete_notification(notif_id) on a notification with the given task grid
CompleteNotification(rows, vis, e, ss, dv) ==
    LET h == dv["qm02"]
        s == SearchNotification(e)
        tasks == AvailableTasks(rows, vis, 0, 0, <<>>)
        pressed == RowsToPress(tasks)
        ret(o, why, rws, prs, all, conf) ==
            [out |-> o, why |-> why, rows |-> rws, pressed |-> prs,
             pressedAll |-> all, confirmed |-> conf, presses |-> s.presses,
             dismissed |-> s.dismissed, reset |-> s.reset, ss |-> ss,
             remote |-> TRUE, fault |-> FALSE, tasks |-> <<>>]
        flt(rws, prs) ==
            LET s2 == IF e.dies THEN Kill(ss, h) ELSE ss
            IN [out |-> AfterFault(s2, h), why |-> "com_error", rows |-> rws,
                pressed |-> prs, pressedAll |-> FALSE, confirmed |-> FALSE,
                presses |-> 0, dismissed |-> FALSE, reset |-> FALSE, ss |-> s2,
                remote |-> TRUE, fault |-> TRUE, tasks |-> <<>>]
    IN
    IF ~CheckPrerequisities("qm02", dv)
    THEN [ret("uninit", "uninit", rows, <<>>, FALSE, FALSE) EXCEPT !.remote = FALSE]
    ELSE IF ~IsLive(ss, h) \/ e.fault = "search"
    THEN flt(rows, <<>>)
    ELSE IF s.out # "opened"
    THEN ret(s.out, s.why, rows, <<>>, FALSE, FALSE)
    ELSE IF \E k \in DOMAIN pressed : pressed[k] + 1 \notin DOMAIN rows
    THEN [flt(rows, <<>>) EXCEPT !.tasks = tasks]
    ELSE IF e.fault = "complete"
    THEN [flt(PressTasks(rows, pressed, e.taskCheck), pressed) EXCEPT !.tasks = tasks]
    ELSE IF CompleteRaises(e.taskCheck, e.finalCheck)
    THEN [ret("error", "status_check", PressTasks(rows, pressed, e.taskCheck),
              pressed, TRUE, FALSE) EXCEPT !.tasks = tasks]
    ELSE [ret("ok", "ok", PressTasks(rows, pressed, e.taskCheck), pressed, TRUE, TRUE)
             EXCEPT !.tasks = tasks]

Qm02Frame ==
    UNCHANGED <<pc, exitCode, data, mainSess, stageSess, drv, idx, n_attempts,
                hist, done, kept>>

\* QM02 started on a live session, one notification with its task grid and
\* with what the remote side shows when the notification is completed
InitQm02 ==
    /\ pc = "qm02"
    /\ exitCode = -1
    /\ data = <<>>
    /\ kept = <<>>
    /\ mainSess = 1
    /\ stageSess = 1
    /\ sessions = <<[st |-> "live", txn |-> "QM02"]>>
    /\ drv = [d \in Drivers |-> IF d = "qm02" THEN 1 ELSE NA]
    /\ idx = 0
    /\ n_attempts = 0
    /\ hist = <<>>
    /\ done = {}
    /\ last = NoEvent
    /\ \E g \in Grids, v \in VisibleRowCounts, e \in Qm02Envs :
         gui = [screen |-> "qm02", rows |-> g, vis |-> v, before |-> g, env |-> e,
                out |-> "none", why |-> "none", pressed |-> <<>>,
                pressedAll |-> FALSE, confirmed |-> FALSE, presses |-> 0,
                dismissed |-> FALSE, reset |-> FALSE, tasks |-> <<>>]

\* qm02.complete_notification(notif_id)
Qm02CompleteNotification ==
    /\ pc = "qm02"
    /\ gui.out = "none"
    /\ \E r \in {CompleteNotification(gui.rows, gui.vis, gui.env, sessions, drv)} :
         /\ gui' = [gui EXCEPT !.rows = r.rows, !.out = r.out, !.why = r.why,
                               !.pressed = r.pressed, !.pressedAll = r.pressedAll,
                               !.confirmed = r.confirmed, !.presses = r.presses,
                               !.dismissed = r.dismissed, !.reset = r.reset,
                               !.tasks = r.tasks]
         /\ sessions' = r.ss
         /\ last' = [LifeEvent("op", "close", "qm02", drv["qm02"], r)
                        EXCEPT !.fault = r.fault]
    /\ Qm02Frame

NextQm02 == Qm02CompleteNotification

SpecQm02 == InitQm02 /\ [][NextQm02]_vars

-----------------------------------------------------------------------------
(* _close_popup_dialog of fb03.py, va03.py and qm02.py (the same code)      *)

\* dialogs that may lie on top of the main window
MaxDialogs == 2

\* _close_popup_dialog(confirm, max_attempts = 3)
PopupMaxAttempts == 3

\* dialog_titles
DialogTitles ==
    {"Information", "Status check error", "Document lines: Display messages"}

\* a modal dialog: its title and the keys that close it
Dialogs ==
    [title : DialogTitles \cup {"Other"}, closesOn : SUBSET {"Enter", "F12"}]

\* the dialogs open over the main window, the active one first
DialogStacks == SeqsUpTo(Dialogs, MaxDialogs)

\* the remote side after a key was pressed: a dialog the key closes goes away
\* and the window under it becomes the active one
PressKey(wins, key) ==
    IF wins # <<>> /\ key \in Head(wins).closesOn THEN Tail(wins) ELSE wins

\* PopupLoopContinues with a fault: the bound compared with <= instead of <
PopupLoopContinuesOffByOne(wins, nth) ==
    wins # <<>> /\ Head(wins).title \in DialogTitles /\ nth <= PopupMaxAttempts

\* while _sess.ActiveWindow.text in (dialog_titles) and nth < max_attempts
PopupLoopContinues(wins, nth) ==
    wins # <<>> /\ Head(wins).title \in DialogTitles /\ nth < PopupMaxAttempts

\* the while loop of _close_popup_dialog: the windows left and the keys pressed
RECURSIVE PopupLoop(_, _, _, _)
PopupLoop(wins, confirm, nth, keys) ==
    IF PopupLoopContinues(wins, nth)
    THEN LET key == IF confirm THEN "Enter" ELSE "F12"
         IN PopupLoop(PressKey(wins, key), confirm, nth + 1, Append(keys, key))
    ELSE [wins |-> wins, keys |-> keys]

\* _close_popup_dialog(confirm): RuntimeError when the active window is still
\* a modal dialog after the loop, else the button captioned "Yes" or "No" of
\* the active window is pressed when there is one
ClosePopupDialog(wins, buttons, confirm) ==
    LET l == PopupLoop(wins, confirm, 0, <<>>)
        btn_caption == IF confirm THEN "Yes" ELSE "No"
    IN IF l.wins # <<>>
       THEN [out |-> "fatal", wins |-> l.wins, keys |-> l.keys, button |-> "none"]
       ELSE [out |-> "ok", wins |-> l.wins, keys |-> l.keys,
             button |-> IF btn_caption \in buttons THEN btn_caption ELSE "none"]

PopupFrame ==
    UNCHANGED <<pc, exitCode, data, mainSess, stageSess, sessions, drv, idx,
                n_attempts, hist, done, kept>>

\* a driver on a live session, some dialogs open over its main window, and
\* one call of _close_popup_dialog
InitPopup ==
    /\ pc = "popup"
    /\ exitCode = -1
    /\ data = <<>>
    /\ kept = <<>>
    /\ mainSess = 1
    /\ stageSess = 1
    /\ sessions = <<[st |-> "live", txn |-> "FB03"]>>
    /\ drv = [d \in Drivers |-> IF d = "fb03" THEN 1 ELSE NA]
    /\ idx = 0
    /\ n_attempts = 0
    /\ hist = <<>>
    /\ done = {}
    /\ last = NoEvent
    /\ \E w \in DialogStacks, b \in SUBSET {"Yes", "No"}, c \in BOOLEAN :
         gui = [screen |-> "popup", wins |-> w, before |-> w, buttons |-> b,
                confirm |-> c, out |-> "none", keys |-> <<>>, button |-> "none"]

PopupClose ==
    /\ pc = "popup"
    /\ gui.out = "none"
    /\ \E r \in {ClosePopupDialog(gui.wins, gui.buttons, gui.confirm)} :
         /\ gui' = [gui EXCEPT !.wins = r.wins, !.out = r.out, !.keys = r.keys,
                               !.button = r.button]
         /\ last' = [NoEvent EXCEPT !.kind = "popup", !.drv = "fb03",
                                    !.handle = drv["fb03"], !.out = r.out,
                                    !.remote = TRUE]
    /\ PopupFrame

NextPopup == PopupClose

SpecPopup == InitPopup /\ [][NextPopup]_vars

-----------------------------------------------------------------------------
(* _remove_duplicates of fb03.py on its own                                 *)

\* length of the texts handed to _remove_duplicates
MaxRepairLen == 6

RepairTexts == SeqsUpTo(TextChars, MaxRepairLen)

RepairFrame ==
    UNCHANGED <<pc, exitCode, data, mainSess, stageSess, sessions, drv, idx,
                n_attempts, hist, done, last, kept>>

\* a text and a case id, and one call of _remove_duplicates
InitRepair ==
    /\ pc = "repair"
    /\ exitCode = -1
    /\ data = <<>>
    /\ kept = <<>>
    /\ mainSess = NA
    /\ stageSess = NA
    /\ sessions = <<>>
    /\ drv = [d \in Drivers |-> NA]
    /\ idx = 0
    /\ n_attempts = 0
    /\ hist = <<>>
    /\ done = {}
    /\ last = NoEvent
    /\ \E t \in RepairTexts, c \in CaseIds :
         gui = [screen |-> "repair", text |-> t, case_id |-> c, out |-> "none",
                result |-> <<>>]

\* _remove_duplicates(text, case_id)
Repair ==
    /\ pc = "repair"
    /\ gui.out = "none"
    /\ gui' = [gui EXCEPT !.out = "done",
                          !.result = RemoveDuplicates(gui.text, gui.case_id)]
    /\ RepairFrame

NextRepair == Repair

SpecRepair == InitRepair /\ [][NextRepair]_vars

-----------------------------------------------------------------------------
(* Properties *)

LoopPcs == {"lookup_loop", "annotate_loop", "close_loop"}

\* the step leaves a stage's loop body and called the stage's driver operation
OpStep == pc \in LoopPcs /\ last'.kind = "op"

RECURSIVE TrailingLosses(_)
TrailingLosses(h) ==
    IF h # <<>> /\ h[Len(h)] = "connlost"
    THEN 1 + TrailingLosses(SubSeq(h, 1, Len(h) - 1))
    ELSE 0

OnlyLosses(h) == \A i \in DOMAIN h : h[i] = "connlost"

Aborted == pc = "exit" /\ exitCode = 3

Running == exitCode = -1

\* C1: in each stage, the third consecutive ConnectionLost result of the
\* driver operation on one record aborts the run (exit code 3), nothing is
\* invoked after the abort, and a success that follows one or two
\* ConnectionLost results on the record finishes the record without abort.
C1_Step ==
    /\ OpStep /\ TrailingLosses(Append(hist, last'.out)) >= MAX_RECOVERY_ATTEMPTS
         => pc' = "exit" /\ exitCode' = 3
    /\ OpStep /\ last'.out = "ok" /\ Len(hist) \in {1, 2} /\ OnlyLosses(hist)
         => exitCode' = -1 /\ <<last'.stage, last'.rec>> \in done'
    /\ Aborted => UNCHANGED vars

C1_ThreeLossesAbort == [][C1_Step]_vars

C1_Witness ==
    /\ Aborted
    /\ hist = <<"connlost", "connlost", "connlost">>
    /\ last.stage = "annotate"
    /\ last.rec = 2

\* C2: a business Warning or Error of the driver operation (NotFound of the
\* lookup included) is recorded as the record's outcome and ends the handling
\* of the record in that stage: the operation is not invoked again for it and
\* the run goes on.
C2_BusinessOutcomeIsFinal ==
    /\ pc \in LoopPcs => \A i \in DOMAIN hist : hist[i] \notin Business
    /\ last.kind = "op" /\ last.out \in Business /\ Running
         => LET m == data[last.rec].msg
            IN m # <<>> /\ m[Len(m)] = last.drv \o ":" \o last.out

\* C3: one or two ConnectionLost results followed by a business Warning or
\* Error on the same record do not abort the run.
C3_NoAbortAfterRecoveredBusiness ==
    /\ hist # <<>>
    /\ hist[Len(hist)] \in {"error", "warning", "contained"}
    /\ \E i \in DOMAIN hist : hist[i] = "connlost"
    => ~Aborted

\* C4: the driver restarted after a ConnectionLost is the driver of the stage
\* whose operation failed, which is then bound to the newly opened session.
C4_SameDriverRestarted ==
    last.restarted # "none"
    => /\ last.restarted = StageDriver(last.stage)
       /\ drv[StageDriver(last.stage)] = last.newSess

\* C5: no annotate operation before the lookup stage has finished with every
\* order row, no notification closure before the annotation stage has finished
\* with every row, and inside a stage the rows are handled in worksheet order.
C5_StageOrder ==
    last.kind = "op" =>
        /\ last.stage = "lookup" =>
              \A e \in done : e[1] = "lookup"
        /\ last.stage = "annotate" =>
              /\ \A i \in DOMAIN data : data[i].isOrder = "T" => <<"lookup", i>> \in done
              /\ \A e \in done : e[1] # "close"
        /\ last.stage = "close" =>
              /\ \A i \in DOMAIN data : data[i].isOrder = "T" => <<"lookup", i>> \in done
              /\ (\E i \in DOMAIN data : data[i].doc # NA)
                    => \A i \in DOMAIN data : <<"annotate", i>> \in done
        /\ \A e \in done : e[1] = last.stage => e[2] <= last.rec
        /\ \A i \in 1..(last.rec - 1) :
              (last.stage = "lookup" => data[i].isOrder = "T")
                 => <<last.stage, i>> \in done

C5_Witness ==
    /\ last.kind = "op"
    /\ last.stage = "close"
    /\ last.rec = 2
    /\ data[1].isOrder = "T"
    /\ data[2].isOrder = "T"

\* C6: the annotation stage invokes FB03 with the document number of a
\* non-order row, with the credit note of an order row that has one, and for
\* an order row without credit note it invokes nothing and appends
\* "Document skipped." to the row's outcome.
C6_Step ==
    pc = "annotate_loop" =>
        LET row == data[idx] IN
        /\ row.isOrder = "F" =>
              last'.kind = "op" /\ last'.drv = "fb03" /\ last'.arg = row.doc
        /\ row.isOrder = "T" /\ row.cn # NA =>
              last'.kind = "op" /\ last'.drv = "fb03" /\ last'.arg = row.cn
        /\ row.isOrder = "T" /\ row.cn = NA =>
              /\ last'.kind = "skip"
              /\ exitCode' = -1
              /\ drv' = drv /\ sessions' = sessions
              /\ data'[idx].msg =
                    IF row.msg = <<>> THEN <<MsgSkipped>>
                    ELSE row.msg \o <<SP, MsgSkipped>>

C6_RowSelection == [][C6_Step]_vars

C6_Witness ==
    /\ last.kind = "skip"
    /\ last.rec = 1
    /\ data[1].msg = <<"va03:warning", SP, MsgSkipped>>
    /\ data[2].cn # NA

\* C7: a fatal (non-business, non-ConnectionLost) error of a driver operation
\* aborts the run in every stage and is never recorded as a record's outcome.
C7_FatalAborts ==
    last.kind = "op" /\ last.out = "fatal" => Aborted

\* C8: a lookup stage in which every order ended with a business Warning or
\* Error, and whose driver was closed, returns normally and the run goes on
\* with the annotation stage.
C8_WarningsNeverStopBatch ==
    /\ last.kind = "close" /\ last.stage = "lookup" /\ last.out = "ok"
    /\ \A i \in DOMAIN data : data[i].isOrder = "T" => data[i].cn = NA /\ data[i].msg # <<>>
    => Running /\ pc = "annotate"

\* C9: the exclusive operation of a driver that is Uninitialized fails with
\* UninitializedModuleError, sends nothing to the remote session and is not
\* reported as ConnectionLost.
C9_UninitializedFails ==
    last.kind = "op" /\ last.handle = NA
    => last.out = "uninit" /\ ~last.remote

C9_Witness ==
    /\ last.kind = "op"
    /\ last.drv = "qm02"
    /\ last.handle = NA
    /\ drv["va03"] # NA

\* C10: start(handle) leaves the driver bound to the handle, whatever its
\* state was, with the driver's transaction started on it; a close() of a
\* Ready driver that returns ends the transaction and leaves the driver
\* Uninitialized; close() of an Uninitialized driver calls nothing, raises
\* nothing and changes nothing.
C10_Step ==
    LET d == last'.drv IN
    /\ pc = "drv" /\ last'.kind = "start" =>
          /\ drv'[d] = last'.handle
          /\ last'.remote
          /\ \A e \in Drivers \ {d} : drv'[e] = drv[e]
          /\ last'.out = "ok" => sessions'[last'.handle].txn = TxnOf(d)
    /\ pc = "drv" /\ last'.kind = "close" /\ drv[d] # NA /\ last'.out = "ok" =>
          /\ drv'[d] = NA
          /\ last'.remote
          /\ sessions'[drv[d]].txn = "none"
    /\ pc = "drv" /\ last'.kind = "close" /\ drv[d] = NA =>
          /\ last'.out = "noop"
          /\ ~last'.remote
          /\ drv' = drv
          /\ sessions' = sessions

C10_Lifecycle == [][C10_Step]_vars

C10_Witness ==
    /\ last.kind = "start"
    /\ last.out = "ok"
    /\ last.handle = 2
    /\ last.drv = "fb03"
    /\ sessions[1].txn = "FB03"
    /\ sessions[2].txn = "FB03"
    /\ drv["fb03"] = 2

\* C11: a com_error raised by a remote call of a driver operation is raised
\* as SapConnectionLostError exactly when the probe of the session made after
\* it fails; with the session still alive the com_error itself leaves the
\* operation, which is neither ConnectionLost nor a business Warning or Error.
\* ConnectionLost is raised by nothing else.
C11_Step ==
    pc = "drv" /\ last'.kind = "op" =>
        /\ last'.fault =>
              /\ last'.out = "connlost" <=> ~IsLive(sessions', last'.handle)
              /\ IsLive(sessions', last'.handle) => last'.out = "com_error"
        /\ last'.out = "connlost" => last'.fault

C11_ConnectionLostIffProbeFails == [][C11_Step]_vars

C11_Witness ==
    /\ last.kind = "op"
    /\ last.fault
    /\ last.out = "com_error"
    /\ last.drv = "qm02"
    /\ IsLive(sessions, last.handle)
    /\ \E h \in DOMAIN sessions : sessions[h].st = "dead"

\* positions of text at which sub occurs
Occurrences(text, sub) == {i \in 1..Len(text) : MatchAt(text, sub, i)}

AllBlank(text, i, j) == \A k \in i..j : text[k] = SP

\* text without its leading and trailing blanks
Core(text) ==
    LET n == Len(text)
        first == IF AllBlank(text, 1, n) THEN n + 1
                 ELSE CHOOSE i \in 1..n : text[i] # SP /\ AllBlank(text, 1, i - 1)
        lst == IF AllBlank(text, 1, n) THEN n
               ELSE CHOOSE j \in 1..n : text[j] # SP /\ AllBlank(text, j + 1, n)
    IN [k \in 1..(lst - first + 1) |-> text[first + k - 1]]

\* "<text without leading and trailing blanks> D <case id>"
Expected(text, case_id) == Core(text) \o <<SP, "D", SP>> \o case_id

Fb03Step == pc = "fb03" /\ last'.kind = "op"

\* C12: append_case_id on a document whose text contains the case id as a
\* substring raises CaseIdContainedWarning, assigns nothing to the Text field
\* and leaves the document text as it was; a call that follows a successful
\* one raises CaseIdContainedWarning, and the text written by a successful
\* call holds the case id exactly once.
C12_Step ==
    Fb03Step =>
        /\ gui'.read /\ Occurrences(gui.text, gui.case_id) # {} =>
              /\ gui'.text = gui.text
              /\ gui'.wrote = <<>>
              /\ ~last'.fault => gui'.out = "contained"
        /\ gui.out = "ok" /\ gui'.read /\ ~last'.fault => gui'.out = "contained"
        /\ gui'.out = "ok" => Cardinality(Occurrences(gui'.text, gui.case_id)) = 1

C12_ContainedIsNotRewritten == [][C12_Step]_vars

C12_Witness ==
    /\ pc = "fb03"
    /\ gui.out = "contained"
    /\ gui.case_id = <<"4">>
    /\ gui.before = <<"7", SP, "D", SP, "4">>
    /\ gui.text = gui.before
    /\ gui.wrote = <<>>

\* C13: a successful append_case_id, on a text that does not contain the case
\* id, writes exactly "<old text without leading and trailing blanks> D
\* <case id>" to the document.
C13_Step ==
    Fb03Step /\ gui'.out = "ok" =>
        /\ Occurrences(gui.text, gui.case_id) = {}
        /\ gui'.text = Expected(gui.text, gui.case_id)
        /\ gui'.wrote = <<Expected(gui.text, gui.case_id)>>

C13_WritesTrimmedTextAndId == [][C13_Step]_vars

C13_Witness ==
    /\ pc = "fb03"
    /\ gui.out = "ok"
    /\ gui.case_id = <<"4", "7">>
    /\ gui.before = <<SP, "7", SP>>
    /\ gui.text = <<"7", SP, "D", SP, "4", "7">>

\* C14: when the composed text is longer than MAX_TEXT_FIELD_CHARS characters
\* append_case_id raises DocumentProcessingError, assigns nothing to the Text
\* field and leaves the document text as it was; a composed text of exactly
\* MAX_TEXT_FIELD_CHARS characters is not refused.
C14_Step ==
    Fb03Step /\ gui'.read /\ Occurrences(gui.text, gui.case_id) = {} =>
        LET n == Len(Expected(gui.text, gui.case_id)) IN
        /\ n > 50 =>
              /\ gui'.out = "error" /\ gui'.why = "toolong"
              /\ gui'.wrote = <<>>
              /\ gui'.text = gui.text
        /\ n <= 50 => gui'.why # "toolong"
        /\ n = 50 /\ gui'.why = "ok" => gui'.text = Expected(gui.text, gui.case_id)

C14_FieldLimit == [][C14_Step]_vars

C14_Witness ==
    /\ pc = "fb03"
    /\ gui.out = "ok"
    /\ Len(gui.text) = 50
    /\ gui.wrote = <<gui.text>>
    /\ Len(gui.before) < 50

\* the nodes of the tree, each followed by the nodes below it, then by the
\* later nodes of its level
RECURSIVE PreOrder(_, _)
PreOrder(t, level) ==
    IF level = <<>> THEN <<>>
    ELSE <<Head(level)>> \o PreOrder(t, SubNodes(t, Head(level)))
                        \o PreOrder(t, Tail(level))

\* the first marked node of a sequence of nodes, NA without one
FirstMarked(t, order) ==
    LET hits == {k \in DOMAIN order : t.mark[order[k]]}
    IN IF hits = {} THEN NA ELSE order[CHOOSE k \in hits : \A j \in hits : k <= j]

\* the call gets to the search of the document flow and ends without a fault
SearchesTree(e) ==
    /\ Passes(e.popup1) /\ Passes(e.popup2)
    /\ e.status = "none" /\ ~e.err /\ e.fault = "none"

Va03Step == pc = "va03" /\ last'.kind = "op"

\* C15: the number returned by the lookup is the one read at the first node,
\* in pre-order, whose text contains "Accounting document", and
\* CreditNoteNotFoundWarning is raised exactly when a lookup that searches the
\* document flow finds the marker in no node.
C15_Step ==
    Va03Step =>
        LET t == gui.tree
            first == FirstMarked(t, PreOrder(t, SubNodes(t, 0)))
        IN /\ Len(PreOrder(t, SubNodes(t, 0))) = Len(t.par)
           /\ SearchesTree(gui.env) /\ first # NA =>
                 gui'.out = "ok" /\ gui'.num = ReferenceNumber(t, first)
           /\ SearchesTree(gui.env) /\ first = NA => gui'.out = "notfound"
           /\ gui'.out = "notfound" => \A n \in DOMAIN t.mark : ~t.mark[n]
           /\ gui'.out = "ok" => first # NA /\ gui'.num = ReferenceNumber(t, first)

C15_PreOrderFirstMatch == [][C15_Step]_vars

\* the only match at depth 2, under the second child of the first node
C15_Witness ==
    /\ pc = "va03"
    /\ gui.out = "ok"
    /\ gui.tree.par = <<0, 1, 1, 3>>
    /\ gui.tree.mark = <<FALSE, FALSE, FALSE, TRUE>>
    /\ gui.num = ReferenceNumber(gui.tree, 4)

\* C16: a popup saying that the order is blocked makes the lookup raise
\* DocumentProcessingWarning, a popup with another unrecognized message
\* DocumentProcessingError, the status "is not in the database or has been
\* archived" DocumentProcessingError; no number is returned in these cases.
C16_Step ==
    Va03Step /\ ~last'.fault =>
        LET e == gui.env IN
        /\ e.popup1 = "blocked" => gui'.out = "warning" /\ gui'.num = NA
        /\ e.popup1 = "other" => gui'.out = "error" /\ gui'.num = NA
        /\ Passes(e.popup1) /\ e.status = "not_in_db" =>
              gui'.out = "error" /\ gui'.num = NA
        /\ Passes(e.popup1) /\ e.status = "none" /\ e.popup2 = "blocked" =>
              gui'.out = "warning" /\ gui'.num = NA
        /\ Passes(e.popup1) /\ e.status = "none" /\ e.popup2 = "other" =>
              gui'.out = "error" /\ gui'.num = NA

C16_LookupSignals == [][C16_Step]_vars

C16_Witness ==
    /\ pc = "va03"
    /\ gui.out = "warning"
    /\ gui.env.popup1 = "comment"
    /\ gui.env.popup2 = "blocked"
    /\ gui.num = NA
    /\ \E n \in DOMAIN gui.tree.mark : gui.tree.mark[n]

Qm02Step == pc = "qm02" /\ last'.kind = "op"

\* no task completion control and no overall completion control was pressed
NothingCompleted(g, rows) ==
    g.pressed = <<>> /\ ~g.pressedAll /\ ~g.confirmed /\ g.rows = rows

\* C17: a status text containing "does not exist" makes complete_notification
\* raise NotificationCompletionError; "can only be displayed" makes it dismiss
\* the screen and raise NotificationCompletionWarning; "blocked" starts the
\* presses of Enter of _reopen_blocked and NotificationCompletionError is
\* raised when the status is still an error after the last press; in the
\* three cases no task and no overall completion control is pressed.
C17_Step ==
    Qm02Step /\ ~last'.fault /\ gui.env.popup0 # "stuck" =>
        LET e == gui.env IN
        /\ e.status = "not_exist" =>
              gui'.out = "error" /\ NothingCompleted(gui', gui.rows)
        /\ e.status = "display_only" =>
              /\ gui'.out = "warning"
              /\ gui'.dismissed
              /\ NothingCompleted(gui', gui.rows)
        /\ e.status = "blocked" =>
              /\ gui'.presses >= 1
              /\ e.clears = 0 \/ e.clears > gui'.presses =>
                    gui'.out = "error" /\ NothingCompleted(gui', gui.rows)
              /\ e.clears = 0 => gui'.out = "error" /\ gui'.why = "blocked"

C17_SearchSignals == [][C17_Step]_vars

C17_Witness ==
    /\ pc = "qm02"
    /\ gui.env.status = "blocked"
    /\ gui.env.clears = 0
    /\ gui.out = "error"
    /\ gui.presses >= 1
    /\ gui.rows = <<[num |-> 1, open |-> TRUE], [num |-> 2, open |-> TRUE]>>
    /\ gui.pressed = <<>>

IsPrefix(a, b) == Len(a) <= Len(b) /\ SubSeq(b, 1, Len(a)) = a

\* C18: the Message of a record is append-only: after every step its previous
\* text is still at the start of its new text.
C18_Step == \A i \in DOMAIN data : IsPrefix(data[i].msg, data'[i].msg)

C18_MessageAppendOnly == [][C18_Step]_vars

\* messages joined by single blanks: no blank at either end, no two in a row
SingleSpaced(m) ==
    /\ m # <<>>
    /\ m[1] # SP /\ m[Len(m)] # SP
    /\ \A k \in 1..(Len(m) - 1) : ~(m[k] = SP /\ m[k + 1] = SP)

\* C19: when the three stages have returned, every record with a document
\* number or a notification number has a non-empty Message, made of messages
\* joined by single blanks.
C19_OutcomeAfterFullRun ==
    pc = "report" =>
        \A i \in DOMAIN data :
            data[i].doc # NA \/ data[i].notif # NA => SingleSpaced(data[i].msg)

\* C20: after an abort of the processing phase (exit code 3) no report was
\* created and no notification sent, and no session is left connected.
C20_AbortSkipsReporting ==
    Aborted =>
        /\ last.kind # "report"
        /\ \A h \in DOMAIN sessions : sessions[h].st # "live"

\* C21: after an abort of the processing phase the worksheet main holds still
\* carries every Message the stages recorded before the abort, the aborting
\* stage included.
C21_AbortKeepsLedger ==
    Aborted => \A i \in DOMAIN data : kept[i].msg = data[i].msg

\* C22: the driver operation is invoked at most three times for one record
\* in one stage (hist lists the results of the calls made for the record).
C22_AtMostThreeCalls ==
    Len(hist) <= MAX_RECOVERY_ATTEMPTS

\* C23: the ConnectionLost result that is the third in a row on a record
\* aborts the run without opening another session.
C23_ThirdLossOpensNoSession ==
    /\ Aborted
    /\ last.kind = "op" /\ last.out = "connlost"
    /\ TrailingLosses(hist) >= MAX_RECOVERY_ATTEMPTS
    => last.newSess = NA

\* the ConnectionLost results among the calls made for a record
Losses(h) == Cardinality({i \in DOMAIN h : h[i] = "connlost"})

\* C24: the retry counter belongs to one record: a success after one or two
\* ConnectionLost results on a record keeps the run going with the counter at
\* zero, every record is begun with the counter at zero, and a loss whose
\* recovery succeeded (session opened, driver restarted) aborts the run only
\* when it is the third loss on the same record.
C24_Step ==
    /\ OpStep /\ last'.out = "ok" /\ Len(hist) \in {1, 2} /\ OnlyLosses(hist)
         => Running' /\ n_attempts' = 0 /\ hist' = <<>>
    /\ done' # done => n_attempts' = 0
    /\ /\ OpStep /\ last'.out = "connlost" /\ pc' = "exit"
       /\ last'.newSess # NA
       /\ sessions'[last'.newSess].txn = TxnOf(last'.restarted)
       => Losses(hist') = MAX_RECOVERY_ATTEMPTS

C24_CounterPerRecord == [][C24_Step]_vars

\* the first document was annotated on the session opened by its recovery and
\* the second document is begun
C24_Witness ==
    /\ pc = "annotate_loop" /\ idx = 2
    /\ last.kind = "op" /\ last.rec = 1 /\ last.out = "ok"
    /\ mainSess = 1 /\ last.handle = 2
    /\ n_attempts = 0
    /\ exitCode = -1

\* C25: a stage starts its driver on the session opened last, so after a
\* recovery every later stage starts on the replacement handle and never on a
\* handle that was found lost.
C25_StartsUseReplacement ==
    last.kind = "start" => last.handle = Len(sessions)

\* C26: when the process has ended after the first session was opened, no
\* session is connected any more: the one disconnect released the handle in
\* use and no session opened by a recovery is left.
C26_NothingLeftConnected ==
    pc = "exit" => \A h \in DOMAIN sessions : ~IsLive(sessions, h)

\* the drivers bound to a session (_sess is not None)
ReadyDrivers == {d \in Drivers : drv[d] # NA}

\* C27: at every moment at most one driver is bound to a session, and when
\* the three stages have returned no driver is.
C27_OneDriverReady ==
    /\ Cardinality(ReadyDrivers) <= 1
    /\ pc = "report" => ReadyDrivers = {}

\* C28: no stage stops the run on a record it does not apply to.
C28_InapplicableRecordPasses ==
    last.kind = "typeerror" => ~Aborted

\* the status bar text is the notice that the net due date is in the past,
\* whatever the date
IsNetDueNotice(text) == Len(text) = 3 /\ text = NetDueNotice(text[2])

\* C29: when the save of append_case_id leaves the notice that the net due
\* date is in the past, the call ends as a success; when it leaves any other
\* error status, the call raises the business error.
C29_SaveNotice ==
    pc = "fb03" /\ gui.save # NoStatus /\ ~last.fault =>
        /\ IsAlertMessage(gui.save) /\ IsNetDueNotice(gui.save.text)
             => gui.out = "ok"
        /\ gui.save.type = "E" /\ ~IsNetDueNotice(gui.save.text)
             => gui.out = "error" /\ gui.why = "save"

\* the rows of the grid, counted from 1, that hold a task: the rows before
\* the first row without task number
TaskRows(rows) == {i \in DOMAIN rows : \A k \in 1..i : rows[k].num # 0}

\* C30: a completion that got through the tasks has enumerated the task of
\* every row that holds one, the last row of the grid included, and has
\* pressed the task completion control once for every enumerated task
\* without completion date.
C30_EnumeratesAllTasks ==
    pc = "qm02" /\ gui.pressedAll =>
        /\ \A i \in TaskRows(gui.before) :
              \E j \in DOMAIN gui.tasks : gui.tasks[j].num = gui.before[i].num
        /\ Len(gui.pressed) = Cardinality({j \in DOMAIN gui.tasks : gui.tasks[j].open})

\* the row indices recorded at enumeration for the tasks without completion
\* date, in the order of enumeration
RecordedOpenRows(tasks) ==
    LET open == SelectSeq(tasks, LAMBDA t : t.open)
    IN [k \in DOMAIN open |-> open[k].row_idx]

\* C31: the rows selected before the task completion control is pressed are
\* the rows at which the tasks without completion date were read, whatever
\* task numbers the rows hold.
C31_SelectsRecordedRow ==
    pc = "qm02" /\ gui.pressedAll => gui.pressed = RecordedOpenRows(gui.tasks)

\* C32: on a locked notification the confirm key is pressed at most
\* max_attempts times, the presses stop at the first one that clears the
\* error, and the business error is raised exactly when the status is still
\* an error after press number max_attempts.
C32_ReopenBounded ==
    /\ pc = "qm02" /\ gui.out # "none" /\ ~last.fault
    /\ gui.env.status = "blocked" /\ gui.env.popup0 # "stuck"
    => /\ gui.presses <= ReopenMaxAttempts
       /\ gui.env.clears \in 1..ReopenMaxAttempts => gui.presses = gui.env.clears
       /\ gui.why = "blocked" <=> StillError(ReopenMaxAttempts, gui.env.clears)

\* the tasks without completion date among the enumerated ones
OpenTasks(tasks) == SelectSeq(tasks, LAMBDA t : t.open)

\* C33: "Status check error" after a task's completion control does not stop
\* the operation: the control is still pressed for every open task and the
\* operation succeeds unless the overall completion is refused; "Status check
\* error" after the overall completion control makes the operation raise the
\* business error, and the completion is not confirmed.
C33_StatusCheckAsymmetry ==
    pc = "qm02" /\ gui.pressedAll /\ ~last.fault =>
        /\ gui.env.taskCheck =>
              /\ Len(gui.pressed) = Len(OpenTasks(gui.tasks))
              /\ ~gui.env.finalCheck => gui.out = "ok" /\ gui.confirmed
        /\ gui.env.finalCheck =>
              gui.out = "error" /\ gui.why = "status_check" /\ ~gui.confirmed

\* two open tasks, each answered by "Status check error": both controls were
\* pressed and the notification was completed
C33_Witness ==
    /\ pc = "qm02"
    /\ gui.env.taskCheck /\ ~gui.env.finalCheck
    /\ gui.before = <<[num |-> 1, open |-> TRUE], [num |-> 2, open |-> TRUE],
                      [num |-> 0, open |-> FALSE]>>
    /\ gui.pressed = <<0, 1>>
    /\ gui.rows = gui.before
    /\ gui.out = "ok" /\ gui.confirmed

\* C34: _close_popup_dialog presses its key at most max_attempts times,
\* presses no key when the active dialog's title is not a known one, raises
\* whenever a modal dialog is still open after the presses, and returns
\* normally only when none is.
C34_PopupResolution ==
    pc = "popup" /\ gui.out # "none" =>
        /\ Len(gui.keys) <= PopupMaxAttempts
        /\ \A k \in DOMAIN gui.keys :
              gui.keys[k] = IF gui.confirm THEN "Enter" ELSE "F12"
        /\ gui.before # <<>> /\ Head(gui.before).title \notin DialogTitles
              => gui.keys = <<>> /\ gui.out = "fatal"
        /\ gui.wins # <<>> <=> gui.out = "fatal"

\* an "Information" dialog that Enter does not close: three presses, then
\* the error
C34_Witness ==
    /\ pc = "popup"
    /\ gui.before = <<[title |-> "Information", closesOn |-> {"F12"}]>>
    /\ gui.confirm
    /\ gui.keys = <<"Enter", "Enter", "Enter">>
    /\ gui.wins = gui.before
    /\ gui.out = "fatal"

\* the case id occurs in the text exactly twice, the second occurrence
\* directly behind the first
TwoAdjacent(text, case_id) ==
    \E i \in 1..Len(text) : Occurrences(text, case_id) = {i, i + Len(case_id)}

\* C35: _remove_duplicates returns a text without the case id when the text
\* holds it exactly twice, one occurrence directly behind the other, and
\* returns the text as it is when the text holds it once or not at all.
C35_RepairRemovesPair ==
    pc = "repair" /\ gui.out = "done" =>
        /\ TwoAdjacent(gui.text, gui.case_id)
              => Occurrences(gui.result, gui.case_id) = {}
        /\ Cardinality(Occurrences(gui.text, gui.case_id)) <= 1
              => gui.result = gui.text

\* C36: append_case_id hands to the repair only a text without the case id,
\* which the repair returns as it is, so the text written is the old text,
\* trimmed, with the case id appended; a text that holds the case id twice or
\* more often is answered by CaseIdContainedWarning and not written.
C36_Step ==
    Fb03Step =>
        /\ gui'.wrote # <<>> =>
              /\ Occurrences(gui.text, gui.case_id) = {}
              /\ RemoveDuplicates(gui.text, gui.case_id) = gui.text
              /\ gui'.wrote = <<Compose(gui.text, gui.case_id)>>
        /\ /\ Cardinality(Occurrences(gui.text, gui.case_id)) >= 2
           /\ gui'.read /\ ~last'.fault
           => gui'.out = "contained" /\ gui'.wrote = <<>> /\ gui'.text = gui.text

C36_RepairNeverChangesText == [][C36_Step]_vars

\* the text "44" holds the case id 4 twice: the call raised
\* CaseIdContainedWarning and the text is as it was
C36_Witness ==
    /\ pc = "fb03"
    /\ gui.case_id = <<"4">>
    /\ gui.before = <<"4", "4">>
    /\ gui.out = "contained"
    /\ gui.wrote = <<>>
    /\ gui.text = gui.before

\* C37: when a driver operation has returned or raised a business warning
\* or error, the transaction is on its initial screen again; shown on
\* append_case_id of fb03.
C37_BackOnInitialScreen ==
    pc = "fb03" /\ gui.out \in {"ok", "contained", "error"} => gui.at = "initial"

====
